---- MODULE Spec2Model ----
(***************************************************************************)
(* Model of docs/dump/analyze_hprof.py: the streaming decoder of a binary  *)
(* hprof heap dump (analyze_hprof) and the report it derives.              *)
(*                                                                         *)
(* The byte source is the environment.  The cursor position `pos` is the   *)
(* value of f.tell(); the content of the file is chosen when it is read    *)
(* (every field value is drawn from a small set), and `eof` records that a *)
(* read came back short, after which no byte is left at or after `pos`.    *)
(* f.read(n) never fails: it returns fewer than n bytes at the end of the  *)
(* file.  struct.unpack fails (struct.error) on a short buffer; that       *)
(* exception leaves analyze_hprof and is the state pc = "fatal".           *)
(***************************************************************************)
EXTENDS Integers, Sequences, FiniteSets, TLC

\* ---------------------------------------------------------------- bounds
MaxRecords == 3      \* top-level records a byte source holds
MaxSubs == 2         \* heap-dump sub-records a byte source holds
MaxId == 1           \* identifiers are drawn from 1..MaxId
MaxSerial == 1       \* class serial numbers are drawn from 1..MaxSerial
MaxFields == 1       \* entries of the three tables of a CLASS_DUMP, in total
MaxData == 2         \* largest declared instance data length
MaxElements == 1     \* largest declared array element count

\* ------------------------------------------------------- hprof constants
TAG_STRING == 1
TAG_LOAD_CLASS == 2
TAG_HEAP_DUMP == 12
TAG_HEAP_DUMP_SEGMENT == 28

SUB_ROOT_JNI_GLOBAL == 1
SUB_ROOT_JNI_LOCAL == 2
SUB_ROOT_JAVA_FRAME == 3
SUB_ROOT_NATIVE_STACK == 4
SUB_ROOT_STICKY_CLASS == 5
SUB_ROOT_THREAD_BLOCK == 6
SUB_ROOT_MONITOR_USED == 7
SUB_ROOT_THREAD_OBJ == 8
SUB_CLASS_DUMP == 32
SUB_INSTANCE_DUMP == 33
SUB_OBJ_ARRAY_DUMP == 34
SUB_PRIM_ARRAY_DUMP == 35
SUB_ROOT_UNKNOWN == 255
SUB_ROOT_INTERNED_STRING == 137
SUB_ROOT_DEBUGGER == 139
SUB_ROOT_VM_INTERNAL == 141
SUB_HEAP_DUMP_INFO == 254
SUB_ROOT_REFERENCE_CLEANUP == 195
SUB_ROOT_FINALIZING == 138
SUB_ROOT_UNREACHABLE == 144

\* BASIC_TYPE_SIZES: type code -> byte width
BASIC_TYPE_SIZES ==
  [tp \in {2, 4, 5, 6, 7, 8, 9, 10, 11} |->
     CASE tp = 2 -> 4 [] tp = 4 -> 1 [] tp = 5 -> 2 [] tp = 6 -> 4
       [] tp = 7 -> 8 [] tp = 8 -> 1 [] tp = 9 -> 2 [] tp = 10 -> 4
       [] tp = 11 -> 8]

\* TypeSize with an object reference as wide as the ids of the stream
TypeSizeById(tp, default) ==
  IF tp = 2 THEN default
  ELSE IF tp \in DOMAIN BASIC_TYPE_SIZES THEN BASIC_TYPE_SIZES[tp] ELSE default

\* BASIC_TYPE_SIZES.get(tp, default)
TypeSize(tp, default) ==
  IF tp \in DOMAIN BASIC_TYPE_SIZES THEN BASIC_TYPE_SIZES[tp] ELSE default

\* ------------------------------------------------- text: character tuples
suspect_keywords ==
  << <<"M","q","t","t","C","o","n","n","e","c","t","i","o","n","M","a","n","a","g","e","r">>,
     <<"L","o","c","a","t","i","o","n","M","q","t","t","S","e","r","v","i","c","e">>,
     <<"M","q","t","t","F","o","r","e","g","r","o","u","n","d","S","e","r","v","i","c","e">>,
     <<"S","m","a","r","t","L","o","c","a","t","i","o","n","S","y","n","c","M","a","n","a","g","e","r">>,
     <<"L","o","c","a","t","i","o","n","R","e","p","o","r","t","S","e","r","v","i","c","e">>,
     <<"D","e","v","i","c","e","R","e","p","o","s","i","t","o","r","y">>,
     <<"C","o","n","t","a","c","t","R","e","p","o","s","i","t","o","r","y">>,
     <<"A","u","t","h","R","e","p","o","s","i","t","o","r","y">>,
     <<"C","o","m","m","u","n","i","c","a","t","i","o","n","M","a","n","a","g","e","r">>,
     <<"S","m","a","r","t","L","o","c","a","t","o","r">>,
     <<"T","e","n","c","e","n","t","L","o","c","a","t","i","o","n","S","e","r","v","i","c","e">>,
     <<"T","e","n","c","e","n","t","L","o","c","a","t","i","o","n","M","a","n","a","g","e","r">>,
     <<"G","e","o","f","e","n","c","e","M","a","n","a","g","e","r">>,
     <<"L","o","c","a","t","i","o","n","S","t","a","t","e","M","a","c","h","i","n","e">>,
     <<"S","o","u","n","d","P","l","a","y","b","a","c","k","S","e","r","v","i","c","e">>,
     <<"L","o","s","t","M","o","d","e","S","e","r","v","i","c","e">>,
     <<"M","a","i","n","V","i","e","w","M","o","d","e","l">>,
     <<"C","o","n","t","a","c","t","V","i","e","w","M","o","d","e","l">> >>
KwActivity ==
  <<"a","c","t","i","v","i","t","y">>
KwService ==
  <<"s","e","r","v","i","c","e">>
KwCoroutineScope ==
  <<"c","o","r","o","u","t","i","n","e","s","c","o","p","e">>
KwSupervisorJob ==
  <<"s","u","p","e","r","v","i","s","o","r","j","o","b">>
KwJobImpl ==
  <<"j","o","b","i","m","p","l">>
KwView ==
  <<"v","i","e","w">>
KwFragment ==
  <<"f","r","a","g","m","e","n","t">>
PkgPrefix ==
  <<"m","e","/","i","k","a","t","e","/","f","i","n","d","m","y">>
UnknownPrefix ==
  <<"u","n","k","n","o","w","n","_","0","x">>
NameMqttService ==
  <<"m","e","/","i","k","a","t","e","/","f","i","n","d","m","y","/","L","o","c","a","t","i","o","n","M","q","t","t","S","e","r","v","i","c","e">>
NameMyScope ==
  <<"x","/","y","/","M","y","C","o","r","o","u","t","i","n","e","S","c","o","p","e">>
NameOtherActivity ==
  <<"c","o","m","/","e","x","a","m","p","l","e","/","M","a","i","n","A","c","t","i","v","i","t","y">>
NameMainViewModel ==
  <<"m","e","/","i","k","a","t","e","/","f","i","n","d","m","y","/","M","a","i","n","V","i","e","w","M","o","d","e","l">>
NameActivityScope ==
  <<"m","e","/","i","k","a","t","e","/","f","i","n","d","m","y","/","A","c","t","i","v","i","t","y","C","o","r","o","u","t","i","n","e","S","c","o","p","e">>
FlagManager ==
  <<"M","a","n","a","g","e","r">>
FlagService ==
  <<"S","e","r","v","i","c","e">>
FlagRepository ==
  <<"R","e","p","o","s","i","t","o","r","y">>
FlagSingleton ==
  <<"S","i","n","g","l","e","t","o","n">>
FlagViewModel ==
  <<"V","i","e","w","M","o","d","e","l">>
UpperChars ==
  <<"A","B","C","D","E","F","G","H","I","J","K","L","M","N","O","P","Q","R","S","T","U","V","W","X","Y","Z">>
LowerChars ==
  <<"a","b","c","d","e","f","g","h","i","j","k","l","m","n","o","p","q","r","s","t","u","v","w","x","y","z">>
HexDigits ==
  <<"0","1","2","3","4","5","6","7","8","9","a","b","c","d","e","f">>

\* the class names a STRING record of the byte source may carry
Names ==
  {NameActivityScope, NameMqttService, NameMyScope, NameMainViewModel,
   NameOtherActivity}

\* str.lower() on one character
LowerChar(c) ==
  IF \E i \in 1..Len(UpperChars) : UpperChars[i] = c
  THEN LowerChars[CHOOSE i \in 1..Len(UpperChars) : UpperChars[i] = c]
  ELSE c

\* str.lower()
Lower(s) == [i \in 1..Len(s) |-> LowerChar(s[i])]

\* the `in` operator on strings: sub occurs in s as a contiguous run
Contains(sub, s) ==
  \E i \in 1..(Len(s) - Len(sub) + 1) : SubSeq(s, i, i + Len(sub) - 1) = sub

\* the digits of format(n, 'x')
RECURSIVE Hex(_)
Hex(n) ==
  IF n < 16 THEN <<HexDigits[n + 1]>>
  ELSE Hex(n \div 16) \o <<HexDigits[(n % 16) + 1]>>

\* f'unknown_{class_id:#x}'
Placeholder(cid) == UnknownPrefix \o Hex(cid)

\* ------------------------------------------------------------ dictionaries
EmptyDict == << >>

\* d[k] = v
Put(d, k, v) == [x \in (DOMAIN d) \cup {k} |-> IF x = k THEN v ELSE d[x]]

\* d.get(k, default)
Get(d, k, default) == IF k \in DOMAIN d THEN d[k] ELSE default

\* Counter(seq): how often each element of the list occurs
CounterOf(items) ==
  [x \in {items[i] : i \in 1..Len(items)} |->
     Cardinality({i \in 1..Len(items) : items[i] = x})]

\* ------------------------------------------------- inputs of the byte source
Ids == 1..MaxId
Serials == 1..MaxSerial
\* name ids of LOAD_CLASS records: the ids of the STRING records and one id that
\* no STRING record of the stream defines
NameIds == 1..(MaxId + 1)
IdSizes == {2, 4, 8}                 \* values of the header's id-size field
\* magic strings of the header: b'JAVA PROFILE 1.0.2'
MagicStrings == {<<74, 65, 86, 65, 32, 80, 82, 79, 70, 73, 76, 69, 32, 49, 46, 48, 46, 50>>}
OtherTags == {44}                    \* top-level tags the dispatcher skips
TopTags ==
  {TAG_STRING, TAG_LOAD_CLASS, TAG_HEAP_DUMP, TAG_HEAP_DUMP_SEGMENT} \cup OtherTags
UnknownSubTags == {0}                \* sub-tags no branch recognizes
RecognizedSubTags ==
  {SUB_ROOT_JNI_GLOBAL, SUB_ROOT_JNI_LOCAL, SUB_ROOT_JAVA_FRAME,
   SUB_ROOT_NATIVE_STACK, SUB_ROOT_STICKY_CLASS, SUB_ROOT_THREAD_BLOCK,
   SUB_ROOT_MONITOR_USED, SUB_ROOT_THREAD_OBJ, SUB_CLASS_DUMP,
   SUB_INSTANCE_DUMP, SUB_OBJ_ARRAY_DUMP, SUB_PRIM_ARRAY_DUMP,
   SUB_ROOT_UNKNOWN, SUB_ROOT_INTERNED_STRING, SUB_ROOT_DEBUGGER,
   SUB_ROOT_VM_INTERNAL, SUB_HEAP_DUMP_INFO, SUB_ROOT_REFERENCE_CLEANUP,
   SUB_ROOT_FINALIZING, SUB_ROOT_UNREACHABLE}
SubTags == RecognizedSubTags \cup UnknownSubTags
TypeCodes == {2, 4, 1}               \* object, boolean, a code not in the table
TypeSeqs == {<<>>} \cup UNION {[1..n -> TypeCodes] : n \in 1..MaxFields}
\* the tables of a CLASS_DUMP: constant pool, static fields, number of instance fields
ClassShapes ==
  {sh \in TypeSeqs \X TypeSeqs \X (0..MaxFields) : Len(sh[1]) + Len(sh[2]) + sh[3] <= MaxFields}

VARIABLES
  pc,                  \* position of analyze_hprof in its code
  pos,                 \* f.tell()
  eof,                 \* no byte is left at or after pos
  header,              \* bytes of the magic string read so far
  id_size,
  tag, length,         \* fields of the record header read last
  end_pos,             \* end of the heap-dump segment being decoded
  sub_tag,             \* sub-tag read last
  str_id, str_data,    \* locals of the STRING branch
  class_id, class_name,\* locals of the INSTANCE_DUMP branch
  data_len,
  num_elements,        \* local of the array branches
  class_shape,         \* what the loops of the CLASS_DUMP read last have read: the type
                       \* codes of the constant pool, those of the static fields,
                       \* and if_count
  record_count, heap_records,
  strings,             \* id -> string
  class_names,         \* class_serial -> name_id
  class_id_to_serial,  \* class_obj_id -> serial
  class_id_to_name,    \* class_obj_id -> class_name
  class_super,         \* class_id -> super_class_id
  instance_counts,     \* class_name -> count
  gc_roots,            \* list of (root_type, object_id)
  activity_instances, service_instances, scope_instances, view_instances,
  report,              \* what the output section computes, once it has run
  \* history of the run, not held by the program
  rec_start,           \* offset of the payload of the record read last
  hdr_got,             \* bytes the last read of a record header obtained
  short_read,          \* an opaque payload read returned fewer bytes than asked
  sub_count,           \* sub-records decoded
  root_subs,           \* root sub-records decoded
  inst_subs,           \* INSTANCE_DUMP sub-records decoded
  budget,              \* records and sub-records the byte source may still give
  hdr_tally,           \* record headers read in full: all, heap dump, LOAD_CLASS
  file,                \* which call of analyze_hprof __main__ is in
  carried              \* the analysis before this one ended with a table or ledger filled

tables == <<strings, class_names, class_id_to_serial, class_id_to_name, class_super>>
ledgers == <<instance_counts, gc_roots, activity_instances, service_instances,
             scope_instances, view_instances>>
locals == <<str_id, str_data, class_id, class_name, data_len, num_elements, class_shape>>
history == <<rec_start, hdr_got, short_read, sub_count, root_subs, inst_subs, budget,
             hdr_tally>>
main == <<file, carried>>
vars == <<pc, pos, eof, header, id_size, tag, length, end_pos, sub_tag, locals,
          record_count, heap_records, tables, ledgers, report, history, main>>

\* the width read_id() reads
IdBytes == IF id_size = 4 THEN 4 ELSE 8

\* the byte count short of n that a read of n bytes returns at the end of the file
ShortOf(n) == {k \in {n - 1} : k >= 0}

\* lines 52-67 and 92-93: the locals of analyze_hprof before the file is read
Init ==
  /\ pc = "magic"
  /\ pos = 0
  /\ eof = FALSE
  /\ header = <<>>
  /\ id_size = 4
  /\ tag = 0 /\ length = 0 /\ end_pos = 0 /\ sub_tag = 0
  /\ str_id = 0 /\ str_data = <<>> /\ class_id = 0 /\ class_name = <<>> /\ data_len = 0
  /\ num_elements = 0 /\ class_shape = <<<<>>, <<>>, 0>>
  /\ record_count = 0 /\ heap_records = 0
  /\ strings = EmptyDict
  /\ class_names = EmptyDict
  /\ class_id_to_serial = EmptyDict
  /\ class_id_to_name = EmptyDict
  /\ class_super = EmptyDict
  /\ instance_counts = EmptyDict
  /\ gc_roots = <<>>
  /\ activity_instances = <<>> /\ service_instances = <<>>
  /\ scope_instances = <<>> /\ view_instances = <<>>
  /\ report = EmptyDict
  /\ rec_start = 0 /\ hdr_got = 0 /\ short_read = FALSE /\ sub_count = 0
  /\ root_subs = 0 /\ inst_subs = 0
  /\ budget = [records |-> MaxRecords, subs |-> MaxSubs]
  /\ hdr_tally = [all |-> 0, heap |-> 0, load |-> 0]
  /\ file = 1 /\ carried = FALSE

\* an exception leaves analyze_hprof: the with statement closes f, the frame of
\* the function and every table in it are discarded, and no summary is printed
Raise(exc) ==
  /\ pc' = exc
  /\ eof' = TRUE
  /\ pos' = 0
  /\ header' = <<>>
  /\ id_size' = 4
  /\ tag' = 0 /\ length' = 0 /\ end_pos' = 0 /\ sub_tag' = 0
  /\ str_id' = 0 /\ str_data' = <<>> /\ class_id' = 0 /\ class_name' = <<>> /\ data_len' = 0
  /\ num_elements' = 0 /\ class_shape' = <<<<>>, <<>>, 0>>
  /\ record_count' = 0 /\ heap_records' = 0
  /\ strings' = EmptyDict
  /\ class_names' = EmptyDict
  /\ class_id_to_serial' = EmptyDict
  /\ class_id_to_name' = EmptyDict
  /\ class_super' = EmptyDict
  /\ instance_counts' = EmptyDict
  /\ gc_roots' = <<>>
  /\ activity_instances' = <<>> /\ service_instances' = <<>>
  /\ scope_instances' = <<>> /\ view_instances' = <<>>
  /\ report' = EmptyDict

\* struct.error, raised by struct.unpack on the short result of a read at the end
\* of the file
Fatal == Raise("fatal")

\* lines 71-76: the loop that reads the magic string up to its zero byte
ReadMagic ==
  /\ pc = "magic"
  /\ \E m \in MagicStrings :
       \/ \* the zero byte follows the magic string
          /\ header' = m
          /\ pos' = pos + Len(m) + 1
          /\ pc' = "idsize"
          /\ UNCHANGED eof
       \/ \* the file ends first: f.read(1) is b'', never b'\x00', and the loop spins
          /\ \E k \in {0, Len(m)} :
               /\ header' = SubSeq(m, 1, k)
               /\ pos' = pos + k
          /\ pc' = "hang"
          /\ eof' = TRUE
  /\ UNCHANGED <<id_size, tag, length, end_pos, sub_tag, locals, record_count,
                 heap_records, tables, ledgers, report, history, main>>

\* lines 80-81: id_size and the 8-byte timestamp
ReadHeaderInts ==
  /\ pc = "idsize"
  /\ \/ Fatal /\ UNCHANGED <<history, main>>
     \/ /\ ~eof
        /\ id_size' \in IdSizes
        /\ pc' = "record" /\ pos' = pos + 12
        /\ UNCHANGED <<eof, header, tag, length, end_pos, sub_tag, locals,
                       record_count, heap_records, tables, ledgers, report, history, main>>

\* the second components of a list of pairs
Seconds(items) == [i \in 1..Len(items) |-> items[i][2]]

\* the first components of a list of pairs
Firsts(items) == [i \in 1..Len(items) |-> items[i][1]]

\* line 359: the flag of a line of the suspect section
SingletonFlag(name, count) ==
  /\ count > 1
  /\ \E s \in {FlagManager, FlagService, FlagRepository, FlagSingleton, FlagViewModel} :
       Contains(s, name)

\* lines 347-360: the lines of the suspect section
SuspectLines ==
  {[name |-> k, count |-> instance_counts[k], flag |-> SingletonFlag(k, instance_counts[k])] :
     k \in {n \in DOMAIN instance_counts :
              \E i \in 1..Len(suspect_keywords) : Contains(suspect_keywords[i], n)}}

\* the index at which x first occurs in a list
FirstIndex(items, x) ==
  CHOOSE i \in 1..Len(items) : items[i] = x /\ \A j \in 1..(i - 1) : items[j] # x

\* Counter(items).most_common()[:n]: the n entries with the highest counts, those
\* of equal count in the order of their first occurrence
MostCommon(items, n) ==
  LET c == CounterOf(items)
      first == [x \in DOMAIN c |-> FirstIndex(items, x)]
      Before(a, b) == c[a] > c[b] \/ (c[a] = c[b] /\ first[a] < first[b])
  IN [x \in {y \in DOMAIN c : Cardinality({z \in DOMAIN c : Before(z, y)}) < n} |-> c[x]]

\* lines 327 and 337: the scope and the view section print at most 20 lines
ScopeLines == 20
ViewLines == 20

\* lines 280-370: what the output section computes from the tables
Summary ==
  [record_count |-> record_count,
   heap_records |-> heap_records,
   strings |-> Cardinality(DOMAIN strings),
   classes |-> Cardinality(DOMAIN class_id_to_name),
   gc_roots |-> Len(gc_roots),
   findmy_classes |-> [k \in {n \in DOMAIN instance_counts : Contains(PkgPrefix, n)} |->
                         instance_counts[k]],
   activity_counter |-> CounterOf(Seconds(activity_instances)),
   service_counter |-> CounterOf(Seconds(service_instances)),
   scope_counter |-> CounterOf(Seconds(scope_instances)),
   scope_lines |-> MostCommon(Seconds(scope_instances), ScopeLines),
   view_counter |-> CounterOf(Seconds(view_instances)),
   view_lines |-> MostCommon(Seconds(view_instances), ViewLines),
   suspects |-> SuspectLines,
   root_counter |-> CounterOf(Firsts(gc_roots))]

\* declared lengths the byte source gives a record of the tag
LengthsFor(tg) ==
  CASE tg = TAG_STRING -> {id_size + Len(n) : n \in Names} \cup {0}
    [] tg = TAG_LOAD_CLASS -> {8 + 2 * IdBytes, 8}
    [] tg = TAG_HEAP_DUMP -> {1 + IdBytes}
    [] tg = TAG_HEAP_DUMP_SEGMENT -> {18 + 4 * IdBytes}
    [] OTHER -> {3}

\* HeaderOutcome with a header cut short taken for the end of the records
HeaderOutcomeLenient(got) ==
  IF got < 9 THEN "done" ELSE "payload"

\* lines 96-102: where reading a record header leads, by the bytes the file still has:
\* none (not tag_bytes: break), the tag but not all of timestamp and length
\* (struct.unpack raises), or all nine
HeaderOutcome(got) ==
  IF got = 0 THEN "done" ELSE IF got < 9 THEN "fatal" ELSE "payload"

\* byte counts the read of a record header may obtain
HeaderReads ==
  IF eof THEN {0} ELSE {0, 1, 5, 8} \cup (IF budget.records > 0 THEN {9} ELSE {})

\* lines 96-104: tag, timestamp, length of the next record, or the end of the loop
\* and, after it, the output section (lines 279-373)
ReadRecordHeader ==
  /\ pc = "record"
  /\ \E got \in HeaderReads :
       /\ hdr_got' = got
       /\ \/ /\ HeaderOutcome(got) = "done"
             /\ pc' = "done" /\ eof' = TRUE
             /\ report' = Summary
             /\ UNCHANGED <<pos, header, id_size, tag, length, end_pos, sub_tag, locals,
                            record_count, heap_records, tables, ledgers,
                            rec_start, short_read, sub_count, root_subs, inst_subs, budget,
                       hdr_tally, main>>
          \/ /\ HeaderOutcome(got) = "fatal"
             /\ Fatal
             /\ UNCHANGED <<rec_start, short_read, sub_count, root_subs, inst_subs, budget,
                       hdr_tally, main>>
          \/ /\ HeaderOutcome(got) = "payload"
             /\ \E tg \in TopTags : \E len \in LengthsFor(tg) :
                  /\ tag' = tg /\ length' = len
                  /\ hdr_tally' =
                       [all  |-> hdr_tally.all + 1,
                        heap |-> hdr_tally.heap + (IF tg \in {TAG_HEAP_DUMP, TAG_HEAP_DUMP_SEGMENT}
                                                    THEN 1 ELSE 0),
                        load |-> hdr_tally.load + (IF tg = TAG_LOAD_CLASS THEN 1 ELSE 0)]
             /\ record_count' = record_count + 1
             /\ budget' = [budget EXCEPT !.records = @ - 1]
             /\ pos' = pos + got /\ rec_start' = pos + got
             /\ pc' = "payload"
             /\ UNCHANGED <<eof, header, id_size, end_pos, sub_tag, locals, heap_records,
                            tables, ledgers, report, short_read, sub_count, root_subs,
                            inst_subs, main>>

\* texts of n characters the byte source may hold
TextsOfLen(n) == {t \in Names \cup {<<>>} : Len(t) = n}

\* what f.read(-k) returns: everything up to the end of the file
RestTexts == IF eof THEN {<<>>} ELSE {<<>>, NameMyScope}

\* DoString keeping the text an id already has (dict.setdefault in place of the
\* assignment of line 109).
DoStringKeepsFirst ==
  /\ pc = "payload" /\ tag = TAG_STRING
  /\ \/ Fatal /\ UNCHANGED <<history, main>>
     \/ /\ ~eof
        /\ \E sid \in Ids :
             /\ str_id' = sid
             /\ \/ \* f.read(n) with n >= 0: the text, or a budget of it at the end of the file
                   /\ length - id_size >= 0
                   /\ \E text \in TextsOfLen(length - id_size) :
                        \E k \in {Len(text)} \cup ShortOf(Len(text)) :
                          /\ strings' = (IF sid \in DOMAIN strings THEN strings
                                      ELSE Put(strings, sid, SubSeq(text, 1, k)))
                          /\ str_data' = SubSeq(text, 1, k)
                          /\ pos' = pos + IdBytes + k
                          /\ eof' = (k < Len(text))
                          /\ short_read' = (short_read \/ k < Len(text))
                \/ \* f.read(n) with n < 0 reads to the end of the file
                   /\ length - id_size < 0
                   /\ \E text \in RestTexts :
                        /\ strings' = (IF sid \in DOMAIN strings THEN strings ELSE Put(strings, sid, text))
                        /\ str_data' = text
                        /\ pos' = pos + IdBytes + Len(text)
                        /\ eof' = TRUE
                   /\ UNCHANGED short_read
        /\ pc' = "record"
        /\ UNCHANGED <<header, id_size, tag, length, end_pos, sub_tag,
                       class_id, class_name, data_len, num_elements, class_shape,
                       record_count, heap_records, class_names, class_id_to_serial,
                       class_id_to_name, class_super, ledgers, report,
                       rec_start, hdr_got, sub_count, root_subs, inst_subs, budget,
                       hdr_tally, main>>

\* lines 106-109: STRING
DoString ==
  /\ pc = "payload" /\ tag = TAG_STRING
  /\ \/ Fatal /\ UNCHANGED <<history, main>>
     \/ /\ ~eof
        /\ \E sid \in Ids :
             /\ str_id' = sid
             /\ \/ \* f.read(n) with n >= 0: the text, or a budget of it at the end of the file
                   /\ length - id_size >= 0
                   /\ \E text \in TextsOfLen(length - id_size) :
                        \E k \in {Len(text)} \cup ShortOf(Len(text)) :
                          /\ strings' = Put(strings, sid, SubSeq(text, 1, k))
                          /\ str_data' = SubSeq(text, 1, k)
                          /\ pos' = pos + IdBytes + k
                          /\ eof' = (k < Len(text))
                          /\ short_read' = (short_read \/ k < Len(text))
                \/ \* f.read(n) with n < 0 reads to the end of the file
                   /\ length - id_size < 0
                   /\ \E text \in RestTexts :
                        /\ strings' = Put(strings, sid, text)
                        /\ str_data' = text
                        /\ pos' = pos + IdBytes + Len(text)
                        /\ eof' = TRUE
                   /\ UNCHANGED short_read
        /\ pc' = "record"
        /\ UNCHANGED <<header, id_size, tag, length, end_pos, sub_tag,
                       class_id, class_name, data_len, num_elements, class_shape,
                       record_count, heap_records, class_names, class_id_to_serial,
                       class_id_to_name, class_super, ledgers, report,
                       rec_start, hdr_got, sub_count, root_subs, inst_subs, budget,
                       hdr_tally, main>>

\* DoLoadClass dropping the name of the class when the name id has no string
DoLoadClassForgets ==
  /\ pc = "payload" /\ tag = TAG_LOAD_CLASS
  /\ \/ Fatal /\ UNCHANGED <<history, main>>
     \/ /\ ~eof
        /\ \E serial \in Serials, class_obj_id \in Ids, name_id \in NameIds :
             /\ class_names' = Put(class_names, serial, name_id)
             /\ class_id_to_serial' = Put(class_id_to_serial, class_obj_id, serial)
             /\ class_id_to_name' =
                  IF name_id \in DOMAIN strings
                  THEN Put(class_id_to_name, class_obj_id, strings[name_id])
                  ELSE [x \in (DOMAIN class_id_to_name) \ {class_obj_id} |->
                          class_id_to_name[x]]
        /\ pos' = pos + 8 + 2 * IdBytes
        /\ pc' = "record"
        /\ UNCHANGED <<eof, header, id_size, tag, length, end_pos, sub_tag, locals,
                       record_count, heap_records, strings, class_super, ledgers,
                       report, history, main>>

\* lines 111-119: LOAD_CLASS
DoLoadClass ==
  /\ pc = "payload" /\ tag = TAG_LOAD_CLASS
  /\ \/ Fatal /\ UNCHANGED <<history, main>>
     \/ /\ ~eof
        /\ \E serial \in Serials, class_obj_id \in Ids, name_id \in NameIds :
             /\ class_names' = Put(class_names, serial, name_id)
             /\ class_id_to_serial' = Put(class_id_to_serial, class_obj_id, serial)
             /\ class_id_to_name' =
                  IF name_id \in DOMAIN strings
                  THEN Put(class_id_to_name, class_obj_id, strings[name_id])
                  ELSE class_id_to_name
        /\ pos' = pos + 8 + 2 * IdBytes
        /\ pc' = "record"
        /\ UNCHANGED <<eof, header, id_size, tag, length, end_pos, sub_tag, locals,
                       record_count, heap_records, strings, class_super, ledgers,
                       report, history, main>>

\* BeginHeapDump without line 122: the segment is entered but not counted
BeginHeapDumpUncounted ==
  /\ pc = "payload" /\ tag \in {TAG_HEAP_DUMP, TAG_HEAP_DUMP_SEGMENT}
  /\ end_pos' = pos + length
  /\ pc' = "segment"
  /\ UNCHANGED <<pos, eof, header, id_size, tag, length, sub_tag, locals,
                 record_count, heap_records, tables, ledgers, report, history, main>>

\* lines 121-123: HEAP_DUMP / HEAP_DUMP_SEGMENT, up to the sub-record loop
BeginHeapDump ==
  /\ pc = "payload" /\ tag \in {TAG_HEAP_DUMP, TAG_HEAP_DUMP_SEGMENT}
  /\ heap_records' = heap_records + 1
  /\ end_pos' = pos + length
  /\ pc' = "segment"
  /\ UNCHANGED <<pos, eof, header, id_size, tag, length, sub_tag, locals,
                 record_count, tables, ledgers, report, history, main>>

\* SkipRecord leaving the payload unread, so that it is taken for the next header
SkipRecordUnread ==
  /\ pc = "payload"
  /\ tag \notin {TAG_STRING, TAG_LOAD_CLASS, TAG_HEAP_DUMP, TAG_HEAP_DUMP_SEGMENT}
  /\ pc' = "record"
  /\ UNCHANGED <<pos, eof, header, id_size, tag, length, end_pos, sub_tag, locals,
                 record_count, heap_records, tables, ledgers, report, history, main>>

\* lines 276-277: any other tag
SkipRecord ==
  /\ pc = "payload"
  /\ tag \notin {TAG_STRING, TAG_LOAD_CLASS, TAG_HEAP_DUMP, TAG_HEAP_DUMP_SEGMENT}
  /\ \E got \in (IF eof THEN {0} ELSE {length} \cup ShortOf(length)) :
       /\ pos' = pos + got
       /\ eof' = (eof \/ got < length)
       /\ short_read' = (short_read \/ got < length)
  /\ pc' = "record"
  /\ UNCHANGED <<header, id_size, tag, length, end_pos, sub_tag, locals,
                 record_count, heap_records, tables, ledgers, report,
                 rec_start, hdr_got, sub_count, root_subs, inst_subs, budget,
                       hdr_tally, main>>

\* lines 125-126: the loop test and the sub-tag byte
ReadSubTag ==
  /\ pc = "segment" /\ pos < end_pos
  /\ \/ Fatal /\ UNCHANGED <<history, main>>
     \/ /\ ~eof /\ budget.subs > 0
        /\ sub_tag' \in SubTags
        /\ budget' = [budget EXCEPT !.subs = @ - 1]
        /\ pos' = pos + 1
        /\ pc' = "subbody"
        /\ UNCHANGED <<eof, header, id_size, tag, length, end_pos, locals,
                       record_count, heap_records, tables, ledgers, report,
                       rec_start, hdr_got, short_read, sub_count, root_subs, inst_subs,
                       hdr_tally, main>>

\* line 125: the loop test fails, the dispatcher goes on
EndSegment ==
  /\ pc = "segment" /\ pos >= end_pos
  /\ pc' = "record"
  /\ UNCHANGED <<pos, eof, header, id_size, tag, length, end_pos, sub_tag, locals,
                 record_count, heap_records, tables, ledgers, report, history, main>>

\* a root branch that appends to gc_roots: obj_id, then `extra` bytes of fixed fields
RootRecord(tg, kind, extra) ==
  /\ pc = "subbody" /\ sub_tag = tg
  /\ \/ Fatal /\ UNCHANGED <<history, main>>
     \/ /\ ~eof
        /\ \E obj_id \in Ids : gc_roots' = Append(gc_roots, <<kind, obj_id>>)
        /\ pos' = pos + IdBytes + extra
        /\ root_subs' = root_subs + 1
        /\ sub_count' = sub_count + 1
        /\ pc' = "segment"
        /\ UNCHANGED <<eof, header, id_size, tag, length, end_pos, sub_tag, locals,
                       record_count, heap_records, tables, instance_counts,
                       activity_instances, service_instances, scope_instances,
                       view_instances, report, rec_start, hdr_got, short_read, inst_subs, budget,
                       hdr_tally, main>>

\* a root branch that only reads obj_id
VendorRoot(tg, kind) ==
  /\ pc = "subbody" /\ sub_tag = tg
  /\ \/ Fatal /\ UNCHANGED <<history, main>>
     \/ /\ ~eof
        /\ pos' = pos + IdBytes
        /\ root_subs' = root_subs + 1
        /\ sub_count' = sub_count + 1
        /\ pc' = "segment"
        /\ UNCHANGED <<eof, header, id_size, tag, length, end_pos, sub_tag, locals,
                       record_count, heap_records, tables, ledgers, report,
                       rec_start, hdr_got, short_read, inst_subs, budget,
                       hdr_tally, main>>

SubRootJniGlobal == RootRecord(SUB_ROOT_JNI_GLOBAL, "JNI_GLOBAL", IdBytes)     \* 128-131
SubRootJniLocal == RootRecord(SUB_ROOT_JNI_LOCAL, "JNI_LOCAL", 8)              \* 133-137
SubRootJavaFrame == RootRecord(SUB_ROOT_JAVA_FRAME, "JAVA_FRAME", 8)           \* 139-143
SubRootNativeStack == RootRecord(SUB_ROOT_NATIVE_STACK, "NATIVE_STACK", 4)     \* 145-148
SubRootStickyClass == RootRecord(SUB_ROOT_STICKY_CLASS, "STICKY_CLASS", 0)     \* 150-152
SubRootThreadBlock == RootRecord(SUB_ROOT_THREAD_BLOCK, "THREAD_BLOCK", 4)     \* 154-157
SubRootMonitorUsed == RootRecord(SUB_ROOT_MONITOR_USED, "MONITOR_USED", 0)     \* 159-161
SubRootThreadObj == RootRecord(SUB_ROOT_THREAD_OBJ, "THREAD_OBJ", 8)           \* 163-167
SubRootUnknown == RootRecord(SUB_ROOT_UNKNOWN, "UNKNOWN", 0)                   \* 237-240
SubRootInternedString == VendorRoot(SUB_ROOT_INTERNED_STRING, "INTERNED_STRING")        \* 242-244
SubRootDebugger == VendorRoot(SUB_ROOT_DEBUGGER, "DEBUGGER")                            \* 246-248
SubRootVmInternal == VendorRoot(SUB_ROOT_VM_INTERNAL, "VM_INTERNAL")                    \* 250-252
SubRootReferenceCleanup == VendorRoot(SUB_ROOT_REFERENCE_CLEANUP, "REFERENCE_CLEANUP")  \* 259-261
SubRootFinalizing == VendorRoot(SUB_ROOT_FINALIZING, "FINALIZING")                      \* 263-265
SubRootUnreachable == VendorRoot(SUB_ROOT_UNREACHABLE, "UNREACHABLE")                   \* 267-269

\* lines 254-257: HEAP_DUMP_INFO
SubHeapDumpInfo ==
  /\ pc = "subbody" /\ sub_tag = SUB_HEAP_DUMP_INFO
  /\ \/ Fatal /\ UNCHANGED <<history, main>>
     \/ /\ ~eof
        /\ pos' = pos + 4 + IdBytes
        /\ sub_count' = sub_count + 1
        /\ pc' = "segment"
        /\ UNCHANGED <<eof, header, id_size, tag, length, end_pos, sub_tag, locals,
                       record_count, heap_records, tables, ledgers, report,
                       rec_start, hdr_got, short_read, root_subs, inst_subs, budget,
                       hdr_tally, main>>

\* bytes of the entries of one CLASS_DUMP table: `fixed` bytes and a value per entry
RECURSIVE EntryBytes(_, _)
EntryBytes(types, fixed) ==
  IF types = <<>> THEN 0
  ELSE fixed + TypeSize(Head(types), id_size) + EntryBytes(Tail(types), fixed)

\* lines 170-199: bytes a CLASS_DUMP reads after its sub-tag
ClassDumpBytes(cp, sf, if_count) ==
  7 * IdBytes + 8
  + 2 + EntryBytes(cp, 3)
  + 2 + EntryBytes(sf, IdBytes + 1)
  + 2 + if_count * (IdBytes + 1)

\* lines 169-199: CLASS_DUMP; every read is followed by a struct.unpack of a later field
SubClassDump ==
  /\ pc = "subbody" /\ sub_tag = SUB_CLASS_DUMP
  /\ \E sh \in ClassShapes :
       LET cp == sh[1]
           sf == sh[2]
           if_count == sh[3]
       IN
       \/ Fatal /\ UNCHANGED <<history, main>>
       \/ /\ ~eof
          /\ \E cid \in Ids, super_class_id \in Ids :
               /\ class_id' = cid
               /\ class_super' = Put(class_super, cid, super_class_id)
          /\ class_shape' = sh
          /\ pos' = pos + ClassDumpBytes(cp, sf, if_count)
          /\ sub_count' = sub_count + 1
          /\ pc' = "segment"
          /\ UNCHANGED <<eof, header, id_size, tag, length, end_pos, sub_tag,
                         str_id, str_data, class_name, data_len, num_elements,
                         record_count, heap_records, strings, class_names,
                         class_id_to_serial, class_id_to_name, ledgers, report,
                         rec_start, hdr_got, short_read, root_subs, inst_subs, budget,
                       hdr_tally, main>>

\* lines 212-220: the bucket the if/elif chain appends an instance to
Bucket(name) ==
  LET cn_lower == Lower(name) IN
  IF Contains(KwActivity, cn_lower) /\ Contains(PkgPrefix, name) THEN "activity"
  ELSE IF Contains(KwService, cn_lower) /\ Contains(PkgPrefix, name) THEN "service"
  ELSE IF \/ Contains(KwCoroutineScope, cn_lower)
          \/ Contains(KwSupervisorJob, cn_lower)
          \/ Contains(KwJobImpl, cn_lower) THEN "scope"
  ELSE IF /\ Contains(KwView, cn_lower) \/ Contains(KwFragment, cn_lower)
          /\ Contains(PkgPrefix, name) THEN "view"
  ELSE "none"

\* line 208: class_id_to_name.get(class_id, f'unknown_{class_id:#x}')
ResolveName(cid) == Get(class_id_to_name, cid, Placeholder(cid))

\* SubInstanceDump looking the class id up with class_id_to_name[class_id], which
\* raises for a class id that has no name
SubInstanceDumpStrict ==
  /\ pc = "subbody" /\ sub_tag = SUB_INSTANCE_DUMP
  /\ \/ Fatal /\ UNCHANGED <<history, main>>
     \/ /\ ~eof /\ \E cid \in Ids : cid \notin DOMAIN class_id_to_name
        /\ Raise("KeyError") /\ UNCHANGED <<history, main>>
     \/ /\ ~eof
        /\ \E len \in {0, MaxData} :
             \E got \in {len} \cup ShortOf(len) :
               /\ data_len' = len
               /\ pos' = pos + 2 * IdBytes + 8 + got
               /\ eof' = (got < len)
               /\ short_read' = (short_read \/ got < len)
        /\ \E obj_id \in Ids, cid \in Ids \cap DOMAIN class_id_to_name :
             LET name == ResolveName(cid)
                 bucket == Bucket(name)
                 entry == <<obj_id, name>>
             IN /\ class_id' = cid
                /\ class_name' = name
                /\ instance_counts' = Put(instance_counts, name, Get(instance_counts, name, 0) + 1)
                /\ activity_instances' =
                     IF bucket = "activity" THEN Append(activity_instances, entry)
                     ELSE activity_instances
                /\ service_instances' =
                     IF bucket = "service" THEN Append(service_instances, entry)
                     ELSE service_instances
                /\ scope_instances' =
                     IF bucket = "scope" THEN Append(scope_instances, entry)
                     ELSE scope_instances
                /\ view_instances' =
                     IF bucket = "view" THEN Append(view_instances, entry)
                     ELSE view_instances
        /\ sub_count' = sub_count + 1
        /\ inst_subs' = inst_subs + 1
        /\ pc' = "segment"
        /\ UNCHANGED <<header, id_size, tag, length, end_pos, sub_tag,
                       str_id, str_data, num_elements, class_shape,
                       record_count, heap_records, tables, gc_roots, report,
                       rec_start, hdr_got, root_subs, budget,
                       hdr_tally, main>>

\* SubInstanceDump storing 1 as the count of the class instead of adding 1 to it
SubInstanceDumpStoresOne ==
  /\ pc = "subbody" /\ sub_tag = SUB_INSTANCE_DUMP
  /\ \/ Fatal /\ UNCHANGED <<history, main>>
     \/ /\ ~eof
        /\ \E len \in {0, MaxData} :
             \E got \in {len} \cup ShortOf(len) :
               /\ data_len' = len
               /\ pos' = pos + 2 * IdBytes + 8 + got
               /\ eof' = (got < len)
               /\ short_read' = (short_read \/ got < len)
        /\ \E obj_id \in Ids, cid \in Ids :
             LET name == ResolveName(cid)
                 bucket == Bucket(name)
                 entry == <<obj_id, name>>
             IN /\ class_id' = cid
                /\ class_name' = name
                /\ instance_counts' = Put(instance_counts, name, 1)
                /\ activity_instances' =
                     IF bucket = "activity" THEN Append(activity_instances, entry)
                     ELSE activity_instances
                /\ service_instances' =
                     IF bucket = "service" THEN Append(service_instances, entry)
                     ELSE service_instances
                /\ scope_instances' =
                     IF bucket = "scope" THEN Append(scope_instances, entry)
                     ELSE scope_instances
                /\ view_instances' =
                     IF bucket = "view" THEN Append(view_instances, entry)
                     ELSE view_instances
        /\ sub_count' = sub_count + 1
        /\ inst_subs' = inst_subs + 1
        /\ pc' = "segment"
        /\ UNCHANGED <<header, id_size, tag, length, end_pos, sub_tag,
                       str_id, str_data, num_elements, class_shape,
                       record_count, heap_records, tables, gc_roots, report,
                       rec_start, hdr_got, root_subs, budget,
                       hdr_tally, main>>

\* lines 201-220: INSTANCE_DUMP
SubInstanceDump ==
  /\ pc = "subbody" /\ sub_tag = SUB_INSTANCE_DUMP
  /\ \/ Fatal /\ UNCHANGED <<history, main>>
     \/ /\ ~eof
        /\ \E len \in {0, MaxData} :
             \E got \in {len} \cup ShortOf(len) :
               /\ data_len' = len
               /\ pos' = pos + 2 * IdBytes + 8 + got
               /\ eof' = (got < len)
               /\ short_read' = (short_read \/ got < len)
        /\ \E obj_id \in Ids, cid \in Ids :
             LET name == ResolveName(cid)
                 bucket == Bucket(name)
                 entry == <<obj_id, name>>
             IN /\ class_id' = cid
                /\ class_name' = name
                /\ instance_counts' = Put(instance_counts, name, Get(instance_counts, name, 0) + 1)
                /\ activity_instances' =
                     IF bucket = "activity" THEN Append(activity_instances, entry)
                     ELSE activity_instances
                /\ service_instances' =
                     IF bucket = "service" THEN Append(service_instances, entry)
                     ELSE service_instances
                /\ scope_instances' =
                     IF bucket = "scope" THEN Append(scope_instances, entry)
                     ELSE scope_instances
                /\ view_instances' =
                     IF bucket = "view" THEN Append(view_instances, entry)
                     ELSE view_instances
        /\ sub_count' = sub_count + 1
        /\ inst_subs' = inst_subs + 1
        /\ pc' = "segment"
        /\ UNCHANGED <<header, id_size, tag, length, end_pos, sub_tag,
                       str_id, str_data, num_elements, class_shape,
                       record_count, heap_records, tables, gc_roots, report,
                       rec_start, hdr_got, root_subs, budget,
                       hdr_tally, main>>

\* an array branch: `fixed` bytes of fields, then num_elements * width opaque bytes
ArrayRecord(tg, fixed, widths) ==
  /\ pc = "subbody" /\ sub_tag = tg
  /\ \/ Fatal /\ UNCHANGED <<history, main>>
     \/ /\ ~eof
        /\ \E n \in 0..MaxElements, width \in widths :
             \E got \in {n * width} \cup ShortOf(n * width) :
               /\ num_elements' = n
               /\ pos' = pos + fixed + got
               /\ eof' = (got < n * width)
               /\ short_read' = (short_read \/ got < n * width)
        /\ sub_count' = sub_count + 1
        /\ pc' = "segment"
        /\ UNCHANGED <<header, id_size, tag, length, end_pos, sub_tag,
                       str_id, str_data, class_id, class_name, data_len, class_shape,
                       record_count, heap_records, tables, ledgers, report,
                       rec_start, hdr_got, root_subs, inst_subs, budget,
                       hdr_tally, main>>

\* lines 222-227: OBJECT_ARRAY_DUMP, elements of id_size bytes
SubObjArrayDump == ArrayRecord(SUB_OBJ_ARRAY_DUMP, 2 * IdBytes + 8, {id_size})

\* lines 229-235: PRIMITIVE_ARRAY_DUMP, elements of BASIC_TYPE_SIZES.get(elem_type, 1) bytes
SubPrimArrayDump ==
  ArrayRecord(SUB_PRIM_ARRAY_DUMP, IdBytes + 9, {TypeSize(tp, 1) : tp \in TypeCodes})

\* SubUnknown raising on the sub-tag instead of leaving the segment
SubUnknownRaises ==
  /\ pc = "subbody" /\ sub_tag \notin RecognizedSubTags
  /\ Fatal /\ UNCHANGED <<history, main>>

\* lines 271-275: a sub-tag no branch recognizes: seek to the end of the segment, break
SubUnknown ==
  /\ pc = "subbody" /\ sub_tag \notin RecognizedSubTags
  /\ pos' = end_pos
  /\ pc' = "record"
  /\ UNCHANGED <<eof, header, id_size, tag, length, end_pos, sub_tag, locals,
                 record_count, heap_records, tables, ledgers, report, history, main>>

Next ==
  \/ ReadMagic
  \/ ReadHeaderInts
  \/ ReadRecordHeader
  \/ DoString
  \/ DoLoadClass
  \/ BeginHeapDump
  \/ SkipRecord
  \/ ReadSubTag
  \/ EndSegment
  \/ SubRootJniGlobal
  \/ SubRootJniLocal
  \/ SubRootJavaFrame
  \/ SubRootNativeStack
  \/ SubRootStickyClass
  \/ SubRootThreadBlock
  \/ SubRootMonitorUsed
  \/ SubRootThreadObj
  \/ SubClassDump
  \/ SubInstanceDump
  \/ SubObjArrayDump
  \/ SubPrimArrayDump
  \/ SubRootUnknown
  \/ SubRootInternedString
  \/ SubRootDebugger
  \/ SubRootVmInternal
  \/ SubHeapDumpInfo
  \/ SubRootReferenceCleanup
  \/ SubRootFinalizing
  \/ SubRootUnreachable
  \/ SubUnknown

Spec == Init /\ [][Next]_vars

\* ------------------------------------------------------------- __main__
\* NextAnalysis with the string table and the class index held outside the
\* function, so that the second call finds what the first call left in them
NextAnalysisShared ==
  /\ pc = "done" /\ file = 1
  /\ file' = 2
  /\ carried' = (tables # <<EmptyDict, EmptyDict, EmptyDict, EmptyDict, EmptyDict>>
                 \/ ledgers # <<EmptyDict, <<>>, <<>>, <<>>, <<>>, <<>>>>)
  /\ pc' = "magic" /\ pos' = 0 /\ eof' = FALSE
  /\ header' = <<>>
  /\ id_size' = 4
  /\ tag' = 0 /\ length' = 0 /\ end_pos' = 0 /\ sub_tag' = 0
  /\ str_id' = 0 /\ str_data' = <<>> /\ class_id' = 0 /\ class_name' = <<>> /\ data_len' = 0
  /\ num_elements' = 0 /\ class_shape' = <<<<>>, <<>>, 0>>
  /\ record_count' = 0 /\ heap_records' = 0
  /\ UNCHANGED <<strings, class_names, class_id_to_serial, class_id_to_name>>
  /\ class_super' = EmptyDict
  /\ instance_counts' = EmptyDict
  /\ gc_roots' = <<>>
  /\ activity_instances' = <<>> /\ service_instances' = <<>>
  /\ scope_instances' = <<>> /\ view_instances' = <<>>
  /\ report' = EmptyDict
  /\ rec_start' = 0 /\ hdr_got' = 0 /\ short_read' = FALSE /\ sub_count' = 0
  /\ root_subs' = 0 /\ inst_subs' = 0
  /\ budget' = [records |-> MaxRecords, subs |-> MaxSubs]
  /\ hdr_tally' = [all |-> 0, heap |-> 0, load |-> 0]

\* lines 379-381: the first call of analyze_hprof has returned; __main__ prints a
\* separator and calls analyze_hprof again, which sets its locals anew (lines
\* 52-67 and 92-93) and opens the second file.  An exception of the first call
\* leaves __main__ too: there is no step from "fatal".
NextAnalysis ==
  /\ pc = "done" /\ file = 1
  /\ file' = 2
  /\ carried' = (tables # <<EmptyDict, EmptyDict, EmptyDict, EmptyDict, EmptyDict>>
                 \/ ledgers # <<EmptyDict, <<>>, <<>>, <<>>, <<>>, <<>>>>)
  /\ pc' = "magic" /\ pos' = 0 /\ eof' = FALSE
  /\ header' = <<>>
  /\ id_size' = 4
  /\ tag' = 0 /\ length' = 0 /\ end_pos' = 0 /\ sub_tag' = 0
  /\ str_id' = 0 /\ str_data' = <<>> /\ class_id' = 0 /\ class_name' = <<>> /\ data_len' = 0
  /\ num_elements' = 0 /\ class_shape' = <<<<>>, <<>>, 0>>
  /\ record_count' = 0 /\ heap_records' = 0
  /\ strings' = EmptyDict
  /\ class_names' = EmptyDict
  /\ class_id_to_serial' = EmptyDict
  /\ class_id_to_name' = EmptyDict
  /\ class_super' = EmptyDict
  /\ instance_counts' = EmptyDict
  /\ gc_roots' = <<>>
  /\ activity_instances' = <<>> /\ service_instances' = <<>>
  /\ scope_instances' = <<>> /\ view_instances' = <<>>
  /\ report' = EmptyDict
  /\ rec_start' = 0 /\ hdr_got' = 0 /\ short_read' = FALSE /\ sub_count' = 0
  /\ root_subs' = 0 /\ inst_subs' = 0
  /\ budget' = [records |-> MaxRecords, subs |-> MaxSubs]
  /\ hdr_tally' = [all |-> 0, heap |-> 0, load |-> 0]

NextMain ==
  \/ Next
  \/ NextAnalysis

SpecMain == Init /\ [][NextMain]_vars

\* ------------------------------------------- a run that has read many classes
\* class ids, string ids and serials of the classes that have an instance
CrowdIds == (MaxId + 1)..(MaxId + ScopeLines)

\* the names of those classes: "jobimpla", "jobimplb", ...
CrowdName(i) == KwJobImpl \o <<LowerChars[i - MaxId]>>

\* offset of the first record, after the magic string, its zero byte, the id
\* size and the timestamp
FirstRecord == 19 + 12

\* The state of analyze_hprof at the head of the record loop (line 95) after it
\* has decoded, from a stream of id size 4: a STRING and a LOAD_CLASS record for
\* each of ScopeLines classes, a heap-dump segment holding one INSTANCE_DUMP
\* without data bytes of each of them in the order of their ids, and then the
\* STRING and the LOAD_CLASS record of the class "x/y/MyCoroutineScope" (id 1).
\* The byte source holds at most one more record with two sub-records.
InitCrowded ==
  LET n == ScopeLines
      last == MaxId + n
      segment == FirstRecord + n * (9 + 4 + Len(KwJobImpl) + 1) + n * (9 + 16) + 9
      load == segment + n * 17 + (9 + 4 + Len(NameMyScope)) + 9
  IN
  /\ pc = "record"
  /\ pos = load + 16
  /\ eof = FALSE
  /\ header \in MagicStrings
  /\ id_size = 4
  /\ tag = TAG_LOAD_CLASS /\ length = 16
  /\ end_pos = segment + n * 17
  /\ sub_tag = SUB_INSTANCE_DUMP
  /\ str_id = 1 /\ str_data = NameMyScope /\ class_id = last /\ class_name = CrowdName(last) /\ data_len = 0
  /\ num_elements = 0 /\ class_shape = <<<<>>, <<>>, 0>>
  /\ record_count = 2 * n + 3 /\ heap_records = 1
  /\ strings = [i \in CrowdIds \cup {1} |-> IF i = 1 THEN NameMyScope ELSE CrowdName(i)]
  /\ class_names = [i \in CrowdIds \cup {1} |-> i]
  /\ class_id_to_serial = [i \in CrowdIds \cup {1} |-> i]
  /\ class_id_to_name = [i \in CrowdIds \cup {1} |-> IF i = 1 THEN NameMyScope ELSE CrowdName(i)]
  /\ class_super = EmptyDict
  /\ instance_counts = [name \in {CrowdName(i) : i \in CrowdIds} |-> 1]
  /\ gc_roots = <<>>
  /\ activity_instances = <<>> /\ service_instances = <<>>
  /\ scope_instances = [k \in 1..n |-> <<MaxId + k, CrowdName(MaxId + k)>>]
  /\ view_instances = <<>>
  /\ report = EmptyDict
  /\ rec_start = load
  /\ hdr_got = 9 /\ short_read = FALSE
  /\ sub_count = n /\ root_subs = 0 /\ inst_subs = n
  /\ budget = [records |-> 1, subs |-> 2]
  /\ hdr_tally = [all |-> 2 * ScopeLines + 3, heap |-> 1, load |-> ScopeLines + 1]
  /\ file = 1 /\ carried = FALSE

\* the record loop of lines 95-277
NextCrowded ==
  \/ ReadRecordHeader
  \/ DoString
  \/ DoLoadClass
  \/ BeginHeapDump
  \/ SkipRecord
  \/ ReadSubTag
  \/ EndSegment
  \/ SubRootJniGlobal
  \/ SubRootJniLocal
  \/ SubRootJavaFrame
  \/ SubRootNativeStack
  \/ SubRootStickyClass
  \/ SubRootThreadBlock
  \/ SubRootMonitorUsed
  \/ SubRootThreadObj
  \/ SubClassDump
  \/ SubInstanceDump
  \/ SubObjArrayDump
  \/ SubPrimArrayDump
  \/ SubRootUnknown
  \/ SubRootInternedString
  \/ SubRootDebugger
  \/ SubRootVmInternal
  \/ SubHeapDumpInfo
  \/ SubRootReferenceCleanup
  \/ SubRootFinalizing
  \/ SubRootUnreachable
  \/ SubUnknown

SpecCrowded == InitCrowded /\ [][NextCrowded]_vars

\* ------------------------------------------------------------------ claims
HeapTags == {TAG_HEAP_DUMP, TAG_HEAP_DUMP_SEGMENT}

\* the record loop is running or has ended normally
Running == pc \in {"record", "payload", "segment", "subbody", "done"}

\* the header gave an id size the format allows.  The claims below that the code
\* violates are stated for such streams, so that what violates them is not the
\* missing check of the id size (C3).
ValidIdSize == id_size \in {4, 8}

\* C1: while a heap-dump segment of declared length L starting at offset s is
\* decoded the cursor never passes s + L (end_pos), and it is exactly at s + L
\* when the dispatcher reads the header of the next record.
C1_CursorStaysInSegment ==
  ValidIdSize =>
    /\ pc \in {"segment", "subbody"} => pos <= end_pos
    /\ (pc = "record" /\ record_count > 0 /\ tag \in HeapTags) => pos = end_pos

\* C2: a sub-tag outside the recognized set does not fail the decoding: the
\* step that handles it puts the cursor at the end of the segment, keeps every
\* table and ledger and every counter as the sub-records decoded before left
\* them, and hands control back to the dispatcher of top-level records.
C2_UnknownSubTagLeavesSegment ==
  [][(pc = "subbody" /\ sub_tag \notin RecognizedSubTags)
       => /\ pc' = "record"
          /\ pos' = end_pos
          /\ tables' = tables /\ ledgers' = ledgers
          /\ record_count' = record_count /\ heap_records' = heap_records
          /\ eof' = eof]_vars

\* C2 witness: a segment was left at an unknown sub-tag after a sub-record of it
\* had been decoded and tallied, and the header of the record that follows the
\* segment has been read and is being dispatched.
C2_Witness ==
  /\ pc = "payload" /\ record_count = 2 /\ heap_records = 1
  /\ sub_tag \in UnknownSubTags /\ sub_count = 1
  /\ pos = end_pos + 9
  /\ Len(gc_roots) = 1

\* C3: a header whose id-size field is neither 4 nor 8 is rejected before any
\* record is read: no state of the record loop has such an id size.
C3_BadIdSizeRejected ==
  Running => id_size \in {4, 8}

\* C4: the payload of a STRING or LOAD_CLASS record takes exactly its declared
\* length: when the dispatcher is back at the record loop the cursor is at the
\* payload offset plus the declared length (stated for records the file holds
\* in full: no read of the run has met the end of the file).
C4_PayloadIsDeclaredLength ==
  (ValidIdSize /\ ~eof /\ pc = "record" /\ record_count > 0
     /\ tag \in {TAG_STRING, TAG_LOAD_CLASS})
    => pos = rec_start + length

\* the LOAD_CLASS record of class id cid and the STRING record of its name id
\* have both been read
BothSeen(cid) ==
  /\ cid \in DOMAIN class_id_to_serial
  /\ class_id_to_serial[cid] \in DOMAIN class_names
  /\ class_names[class_id_to_serial[cid]] \in DOMAIN strings

\* C5: an INSTANCE_DUMP is tallied under the real class name once the LOAD_CLASS
\* record of its class id and the STRING record of the name id have both been
\* read, in either order, and under the placeholder before that.
C5_ResolvedOnceBothSeen ==
  [][(ValidIdSize /\ pc = "subbody" /\ sub_tag = SUB_INSTANCE_DUMP /\ pc' = "segment")
       => (class_name' = Placeholder(class_id')) = ~BothSeen(class_id')]_vars

\* C6: a run in which a declared payload was cut short by the end of the file
\* never ends normally with a summary.
C6_TruncationIsFatal ==
  (ValidIdSize /\ pc = "done") => ~short_read

\* C7: the record loop ends normally only when no byte at all is left where a
\* tag is expected; when the file ends after the tag byte and before the end of
\* the 9-byte header the run ends in the fatal state.
C7_CleanStopOnlyAtBoundary ==
  /\ pc = "done" => hdr_got = 0
  /\ hdr_got \in 1..8 => pc = "fatal"

\* C7 witness: after at least one whole record, the file ended inside the next
\* record header and the run ended fatally.
C7_Witness ==
  pc = "fatal" /\ hdr_got \in 1..8 /\ rec_start > 0

\* the root type of the sub-records with a root sub-tag
RootTypeOf(tg) ==
  CASE tg = SUB_ROOT_JNI_GLOBAL -> "JNI_GLOBAL"
    [] tg = SUB_ROOT_JNI_LOCAL -> "JNI_LOCAL"
    [] tg = SUB_ROOT_JAVA_FRAME -> "JAVA_FRAME"
    [] tg = SUB_ROOT_NATIVE_STACK -> "NATIVE_STACK"
    [] tg = SUB_ROOT_STICKY_CLASS -> "STICKY_CLASS"
    [] tg = SUB_ROOT_THREAD_BLOCK -> "THREAD_BLOCK"
    [] tg = SUB_ROOT_MONITOR_USED -> "MONITOR_USED"
    [] tg = SUB_ROOT_THREAD_OBJ -> "THREAD_OBJ"
    [] tg = SUB_ROOT_UNKNOWN -> "UNKNOWN"
    [] tg = SUB_ROOT_INTERNED_STRING -> "INTERNED_STRING"
    [] tg = SUB_ROOT_DEBUGGER -> "DEBUGGER"
    [] tg = SUB_ROOT_VM_INTERNAL -> "VM_INTERNAL"
    [] tg = SUB_ROOT_REFERENCE_CLEANUP -> "REFERENCE_CLEANUP"
    [] tg = SUB_ROOT_FINALIZING -> "FINALIZING"
    [] tg = SUB_ROOT_UNREACHABLE -> "UNREACHABLE"

RootSubTags ==
  {SUB_ROOT_JNI_GLOBAL, SUB_ROOT_JNI_LOCAL, SUB_ROOT_JAVA_FRAME,
   SUB_ROOT_NATIVE_STACK, SUB_ROOT_STICKY_CLASS, SUB_ROOT_THREAD_BLOCK,
   SUB_ROOT_MONITOR_USED, SUB_ROOT_THREAD_OBJ, SUB_ROOT_UNKNOWN,
   SUB_ROOT_INTERNED_STRING, SUB_ROOT_DEBUGGER, SUB_ROOT_VM_INTERNAL,
   SUB_ROOT_REFERENCE_CLEANUP, SUB_ROOT_FINALIZING, SUB_ROOT_UNREACHABLE}

\* the root histogram of a ledger (line 368)
Histogram(roots) == CounterOf(Firsts(roots))

\* C8: the root histogram counts, for each root type, the root sub-records of
\* that type that were decoded, repeated (type, objectId) pairs included: each
\* decoded root sub-record adds one to the count of its type and leaves the
\* counts of the other types as they were (so N JNI_GLOBAL and M THREAD_OBJ
\* sub-records give exactly {JNI_GLOBAL: N, THREAD_OBJ: M}).
C8_HistogramCountsDecodedRoots ==
  [][(ValidIdSize /\ pc = "subbody" /\ sub_tag \in RootSubTags /\ pc' = "segment")
       => \A t \in {RootTypeOf(tg) : tg \in RootSubTags} :
            Get(Histogram(gc_roots'), t, 0) =
              Get(Histogram(gc_roots), t, 0) + (IF t = RootTypeOf(sub_tag) THEN 1 ELSE 0)]_vars

\* C9: every decoded root sub-record, of a standard or of a vendor kind, adds one
\* entry to the GC-root ledger: the GC-root count is the number of root
\* sub-records decoded.
C9_EveryRootIsRecorded ==
  (ValidIdSize /\ Running) => Len(gc_roots) = root_subs

\* the categories the output reports a class name under
CategoriesOf(name) ==
  {cat \in {"activity", "service", "scope", "view", "suspect"} :
     \/ cat = "activity" /\ name \in DOMAIN report.activity_counter
     \/ cat = "service" /\ name \in DOMAIN report.service_counter
     \/ cat = "scope" /\ name \in DOMAIN report.scope_counter
     \/ cat = "view" /\ name \in DOMAIN report.view_counter
     \/ cat = "suspect" /\ \E line \in report.suspects : line.name = name}

\* C10: classification is first-match-wins: no class name is reported under
\* more than one of the five categories.
C10_AtMostOneCategory ==
  (ValidIdSize /\ pc = "done") =>
    \A name \in DOMAIN instance_counts : Cardinality(CategoriesOf(name)) <= 1

\* C11: after a STRING record defining "com/example/MainActivity", a LOAD_CLASS
\* record referencing it and two INSTANCE_DUMP sub-records of that class id, the
\* per-class count of the name is 2 and the summary reports the class in the
\* Activity category with a count above 1 (leak-suspect).
C11_TwoMainActivitiesAreSuspect ==
  (ValidIdSize /\ pc = "done"
     /\ \E cid \in Ids : Get(class_id_to_name, cid, <<>>) = NameOtherActivity
     /\ Get(instance_counts, NameOtherActivity, 0) = 2)
    => Get(report.activity_counter, NameOtherActivity, 0) = 2

\* the three rules of the if/elif chain C12 speaks of, as the claim words them
ScopeWord(name) ==
  \/ Contains(KwCoroutineScope, Lower(name))
  \/ Contains(KwSupervisorJob, Lower(name))
  \/ Contains(KwJobImpl, Lower(name))
ActivityRule(name) == Contains(KwActivity, Lower(name)) /\ Contains(PkgPrefix, name)
ServiceRule(name) == Contains(KwService, Lower(name)) /\ Contains(PkgPrefix, name)

\* C12: a class whose name contains "coroutinescope", "supervisorjob" or
\* "jobimpl" (case-insensitive) and matches neither the Activity nor the Service
\* rule has all its instances in the concurrency-scope category, with or without
\* the package budget in its name, and the scope section lists it, also when
\* its count is 1.  Stated for the runs that read no payload cut short and
\* whose last heap-dump segment ended at its declared length.
C12_ScopeClassIsListed ==
  (ValidIdSize /\ pc = "done" /\ ~short_read /\ tag \in HeapTags /\ pos = end_pos) =>
    \A name \in DOMAIN instance_counts :
      (ScopeWord(name) /\ ~ActivityRule(name) /\ ~ServiceRule(name)) =>
        /\ Get(report.scope_counter, name, 0) = instance_counts[name]
        /\ name \in DOMAIN report.scope_lines

\* the summary of a stream that holds no record
EmptySummary ==
  [record_count |-> 0, heap_records |-> 0, strings |-> 0, classes |-> 0, gc_roots |-> 0,
   findmy_classes |-> <<>>, activity_counter |-> <<>>, service_counter |-> <<>>,
   scope_counter |-> <<>>, scope_lines |-> <<>>, view_counter |-> <<>>,
   view_lines |-> <<>>, suspects |-> {}, root_counter |-> <<>>]

\* C13: analyses are isolated: when analyze_hprof starts on a stream, the first
\* or the one after another stream, every table, ledger and counter is empty
\* and the cursor is at offset 0, so that what the run computes depends on the
\* bytes of its own stream only; in particular the summary of a stream without
\* records is the same after any stream as it is alone.
C13_EachAnalysisStartsEmpty ==
  /\ pc = "magic" =>
       /\ tables = <<EmptyDict, EmptyDict, EmptyDict, EmptyDict, EmptyDict>>
       /\ ledgers = <<EmptyDict, <<>>, <<>>, <<>>, <<>>, <<>>>>
       /\ record_count = 0 /\ heap_records = 0
       /\ pos = 0 /\ ~eof /\ header = <<>> /\ id_size = 4
       /\ report = EmptyDict
  /\ (pc = "done" /\ record_count = 0) => report = EmptySummary

\* C13 witness: the second stream, without records, was analyzed to its end
\* after a first stream that had left a table or a ledger filled.
C13_Witness ==
  file = 2 /\ carried /\ pc = "done" /\ record_count = 0 /\ report = EmptySummary

KnownTags == {TAG_STRING, TAG_LOAD_CLASS, TAG_HEAP_DUMP, TAG_HEAP_DUMP_SEGMENT}

\* C14: a top-level record with a tag other than STRING, LOAD_CLASS, HEAP_DUMP
\* and HEAP_DUMP_SEGMENT changes the record count by one, when its header is
\* read, and nothing else: the step that handles its payload moves the cursor
\* by exactly the declared length and leaves the string table, the class index,
\* the GC-root ledger, the instance counts, the category buckets and both
\* counters as they are.  (A record is its header and `length` payload bytes; a
\* payload cut short by the end of the file is the case of C6.)
C14_OtherTagOnlySkips ==
  [][/\ (pc = "record" /\ pc' = "payload" /\ tag' \notin KnownTags)
          => /\ record_count' = record_count + 1
             /\ pos' = pos + 9
             /\ heap_records' = heap_records
             /\ tables' = tables /\ ledgers' = ledgers
     /\ (pc = "payload" /\ tag \notin KnownTags /\ ~eof')
          => /\ pos' = pos + length
             /\ record_count' = record_count /\ heap_records' = heap_records
             /\ tables' = tables /\ ledgers' = ledgers
             /\ pc' = "record"]_vars

\* C14 witness: a record with another tag, held in full by the file, has been
\* skipped after a STRING record had filled the string table.
C14_Witness ==
  /\ pc = "record" /\ tag \notin KnownTags /\ record_count = 2
  /\ ~eof /\ length > 0 /\ pos = rec_start + length
  /\ Cardinality(DOMAIN strings) = 1

\* C15: class-name resolution is monotone: no step of a run (a repeated
\* LOAD_CLASS for the class id, a LOAD_CLASS whose name id has no STRING, a
\* STRING, a heap-dump segment) takes a class id out of the class index, so a
\* class id that resolved to a name never resolves to the placeholder again.
C15_ResolutionIsMonotone ==
  [][pc' # "fatal" =>
       \A cid \in DOMAIN class_id_to_name :
         /\ cid \in DOMAIN class_id_to_name'
         /\ Get(class_id_to_name', cid, Placeholder(cid)) # Placeholder(cid)]_vars

\* C15 witness: a class id resolved by a LOAD_CLASS record is still resolved
\* after a second LOAD_CLASS record for it whose name id has no STRING record.
C15_Witness ==
  /\ pc = "record" /\ record_count = 3 /\ tag = TAG_LOAD_CLASS
  /\ \E cid \in DOMAIN class_id_to_name :
       /\ cid \in DOMAIN class_id_to_serial
       /\ class_names[class_id_to_serial[cid]] \notin DOMAIN strings
       /\ class_id_to_name[cid] \in Names

\* the four category lists, by the name of their bucket
BucketList(b) ==
  CASE b = "activity" -> activity_instances
    [] b = "service" -> service_instances
    [] b = "scope" -> scope_instances
    [] b = "view" -> view_instances

\* C16: an INSTANCE_DUMP whose class id has no resolved name is not an error:
\* the branch is left to the sub-record loop or, when the file ends inside the
\* fixed fields, by struct.error, and by nothing else; the step that decodes the
\* sub-record consumes the fixed fields and the declared data bytes, adds one to
\* the count of the placeholder "unknown_0x<hex id>" of that class id and to no
\* other count, puts the instance in the category list that the rules give for
\* the placeholder name and in no other, changes no table, and goes on with the
\* sub-record loop.  (The data bytes are those the file holds; data cut short
\* by the end of the file is the case of C6.)
C16_UnresolvedInstanceIsTallied ==
  [][(pc = "subbody" /\ sub_tag = SUB_INSTANCE_DUMP) =>
       /\ pc' \in {"segment", "fatal"}
       /\ (pc' # "fatal" /\ class_id' \notin DOMAIN class_id_to_name) =>
            LET ph == Placeholder(class_id') IN
            /\ class_name' = ph
            /\ instance_counts' = Put(instance_counts, ph, Get(instance_counts, ph, 0) + 1)
            /\ \A b \in {"activity", "service", "scope", "view"} :
                 Len(BucketList(b)') = Len(BucketList(b)) + (IF Bucket(ph) = b THEN 1 ELSE 0)
            /\ ~eof' => pos' = pos + 2 * IdBytes + 8 + data_len'
            /\ tables' = tables /\ gc_roots' = gc_roots]_vars

\* C16 witness: an INSTANCE_DUMP with data bytes of an unresolved class id was
\* tallied under its placeholder and the sub-record after it has been read.
C16_Witness ==
  /\ pc = "subbody" /\ budget.subs = 0 /\ ~eof
  /\ class_id \in Ids /\ class_id \notin DOMAIN class_id_to_name
  /\ data_len = MaxData
  /\ class_name = UnknownPrefix \o <<"1">>
  /\ Get(instance_counts, class_name, 0) = 1

\* the width C17 gives a value of type code tp: 4 for the object code, the
\* width of the primitive for its code, the id width for any other code
ClaimedWidth(tp) ==
  CASE tp = 2 -> 4
    [] tp \in {4, 8} -> 1
    [] tp \in {5, 9} -> 2
    [] tp \in {6, 10} -> 4
    [] tp \in {7, 11} -> 8
    [] OTHER -> id_size

RECURSIVE SumWidths(_)
SumWidths(types) ==
  IF types = <<>> THEN 0 ELSE ClaimedWidth(Head(types)) + SumWidths(Tail(types))

\* C17: a CLASS_DUMP advances the cursor by its fixed fields, by index, type
\* byte and value for each constant-pool entry, by name id, type byte and value
\* for each static field and by name id and type byte, without a value, for
\* each instance field, a value being as wide as the basic-type-size of its
\* type code: 4 bytes for the object code also when the id width is 8, the id
\* width for a code the table lacks.  An OBJECT_ARRAY_DUMP held in full by the
\* file advances it by its fixed fields and elementCount x idWidth bytes.
C17_ClassDumpWidths ==
  [][/\ (pc = "subbody" /\ sub_tag = SUB_CLASS_DUMP /\ pc' = "segment") =>
          LET cp == class_shape'[1]
              sf == class_shape'[2]
              ifc == class_shape'[3]
          IN pos' = pos + (7 * IdBytes + 8)
                        + 2 + 3 * Len(cp) + SumWidths(cp)
                        + 2 + (IdBytes + 1) * Len(sf) + SumWidths(sf)
                        + 2 + (IdBytes + 1) * ifc
     /\ (pc = "subbody" /\ sub_tag = SUB_OBJ_ARRAY_DUMP /\ pc' = "segment" /\ ~eof') =>
          pos' = pos + (2 * IdBytes + 8) + num_elements' * id_size]_vars

\* C17 witness: in a stream of id width 8, a CLASS_DUMP with one constant of
\* the object type code, the first sub-record of its segment, has been decoded:
\* the cursor is 1 + 64 + 2 + (2 + 1 + 4) + 2 + 2 bytes into the segment.
C17_Witness ==
  /\ pc = "segment" /\ sub_tag = SUB_CLASS_DUMP /\ id_size = 8
  /\ class_shape = <<<<2>>, <<>>, 0>>
  /\ budget.subs = MaxSubs - 1
  /\ pos = rec_start + 78

\* the sum of the counts of a counter
RECURSIVE SumCounts(_)
SumCounts(c) ==
  IF DOMAIN c = {} THEN 0
  ELSE LET k == CHOOSE x \in DOMAIN c : TRUE
       IN c[k] + SumCounts([x \in (DOMAIN c) \ {k} |-> c[x]])

\* C18: in one analysis run no step lowers the instance count of a class, and
\* after every step the counts add up to the number of INSTANCE_DUMP
\* sub-records decoded so far while the Activity, Service, concurrency-scope
\* and View/Fragment lists together hold at most that many entries.
C18_CountsAddUp ==
  [][pc' # "fatal" =>
       /\ \A name \in DOMAIN instance_counts :
            /\ name \in DOMAIN instance_counts'
            /\ instance_counts'[name] >= instance_counts[name]
       /\ SumCounts(instance_counts') = inst_subs'
       /\ Len(activity_instances') + Len(service_instances')
            + Len(scope_instances') + Len(view_instances') <= inst_subs']_vars

\* C18 witness: two INSTANCE_DUMP sub-records of one class of the Service rule
\* have been decoded: its count is 2 and the Service list holds both.
C18_Witness ==
  /\ pc = "segment" /\ inst_subs = 2
  /\ Get(instance_counts, NameMqttService, 0) = 2
  /\ Len(service_instances) = 2

\* C19: the string table is last-write-wins.  A STRING record that is read stores
\* the text it read under its id, whatever the id held before; every other id
\* keeps its text; the table gains at most that one id, so a repeated id is
\* counted once; and the record changes no class table, so a class resolved
\* from the earlier text keeps the name it resolved to.  For a record whose
\* payload is all in the file the text is as long as the header says.
C19_StringLastWriteWins ==
  [][(pc = "payload" /\ tag = TAG_STRING /\ pc' = "record") =>
       /\ DOMAIN strings' = DOMAIN strings \cup {str_id'}
       /\ strings'[str_id'] = str_data'
       /\ \A id \in DOMAIN strings : id # str_id' => strings'[id] = strings[id]
       /\ Cardinality(DOMAIN strings') =
            Cardinality(DOMAIN strings) + (IF str_id' \in DOMAIN strings THEN 0 ELSE 1)
       /\ (~eof' /\ length >= id_size) => Len(str_data') = length - id_size
       /\ class_names' = class_names
       /\ class_id_to_serial' = class_id_to_serial
       /\ class_id_to_name' = class_id_to_name]_vars

\* STRING, LOAD_CLASS, STRING with one id: the id now has the later text, the
\* table has one entry, and the class still has the name of the earlier text.
C19_Witness ==
  /\ pc = "record" /\ record_count = 3 /\ tag = TAG_STRING /\ ~eof
  /\ Cardinality(DOMAIN strings) = 1
  /\ \E cid \in DOMAIN class_id_to_name :
       /\ cid \in DOMAIN class_id_to_serial
       /\ class_names[class_id_to_serial[cid]] = str_id
       /\ strings[str_id] = str_data
       /\ class_id_to_name[cid] \in Names
       /\ class_id_to_name[cid] # strings[str_id]

\* C20: while the analysis runs and in its report, record_count is the number
\* of record headers read in full; heap_records is the number of those with tag
\* HEAP_DUMP or HEAP_DUMP_SEGMENT (from the moment the branch of line 121 is
\* entered; between the header and that branch it is one behind), hence at most
\* record_count; the classes resolved are at most the LOAD_CLASS records read.
\* A segment left at an unknown sub-tag stays counted once in both: the step
\* leaving it changes neither counter.
C20_CountsMatchHeaders ==
  [][/\ (pc' \in {"record", "payload", "segment", "subbody", "done"}) =>
          /\ record_count' = hdr_tally'.all
          /\ heap_records' = hdr_tally'.heap
                 - (IF pc' = "payload" /\ tag' \in HeapTags THEN 1 ELSE 0)
          /\ heap_records' <= record_count'
          /\ Cardinality(DOMAIN class_id_to_name') <= hdr_tally'.load
          /\ pc' = "done" =>
               /\ report'.record_count = hdr_tally'.all
               /\ report'.heap_records = hdr_tally'.heap
     /\ (pc = "subbody" /\ sub_tag \notin RecognizedSubTags /\ pc' # "fatal") =>
          /\ pc' = "record"
          /\ record_count' = record_count /\ heap_records' = heap_records]_vars

\* STRING, LOAD_CLASS, then a heap segment left at an unknown sub-tag with bytes
\* of it unread, then the end of the file: three records, one heap segment, one
\* class resolved
C20_Witness ==
  /\ pc = "done" /\ ~short_read
  /\ tag \in HeapTags /\ sub_tag \notin RecognizedSubTags /\ sub_count = 0
  /\ pos = end_pos /\ pos > rec_start + 1
  /\ report.record_count = 3 /\ report.heap_records = 1
  /\ hdr_tally = [all |-> 3, heap |-> 1, load |-> 1]
  /\ Cardinality(DOMAIN class_id_to_name) = 1

====
